---- MODULE Spec2Model ----
(***************************************************************************)
(* Model of ChatDoc's retrieval-augmented answering pipeline:              *)
(*   utils.py  process_pdf, create_chroma_store, load_chroma_store, qa_ret *)
(*   app.py    upload_pdf, ask_question                                    *)
(* A text is a sequence of one-character strings.  "a" stands for any      *)
(* non-whitespace character; " " and "\n" are the whitespace characters    *)
(* the splitter's separators and str.strip() look at.                      *)
(***************************************************************************)
EXTENDS Integers, Sequences, FiniteSets, TLC

\* utils.py:40-41, RecursiveCharacterTextSplitter(chunk_size=512, chunk_overlap=40)
chunk_size == 512
chunk_overlap == 40
\* utils.py:118, search_kwargs={"k": 4}
k == 4

\* RecursiveCharacterTextSplitter's default separators: "\n\n", "\n", " ", "".
separators == << <<"\n", "\n">>, <<"\n">>, <<" ">>, <<>> >>

Min(S) == CHOOSE x \in S : \A y \in S : x <= y
Max(S) == CHOOSE x \in S : \A y \in S : x >= y

Rep(c, n) == [i \in 1..n |-> c]

RECURSIVE ConcatRange(_, _, _)
\* parts[lo] \o ... \o parts[hi], joined by halves to bound the evaluation depth.
ConcatRange(parts, lo, hi) ==
    IF lo > hi THEN <<>>
    ELSE IF lo = hi THEN parts[lo]
    ELSE LET mid == (lo + hi) \div 2
         IN  ConcatRange(parts, lo, mid) \o ConcatRange(parts, mid + 1, hi)

\* "".join(parts)
Concat(parts) == ConcatRange(parts, 1, Len(parts))

IsSpace(c) == c \in {" ", "\n"}

\* str.strip(): the text without its leading and trailing whitespace.
strip(s) ==
    LET keep == {i \in 1..Len(s) : ~IsSpace(s[i])}
    IN  IF keep = {} THEN <<>> ELSE SubSeq(s, Min(keep), Max(keep))

\* sep occurs in text at position i.
MatchAt(text, sep, i) ==
    /\ i + Len(sep) - 1 <= Len(text)
    /\ \A j \in 1..Len(sep) : text[i + j - 1] = sep[j]

\* re.search(re.escape(sep), text) for a non-empty separator.
re_search(sep, text) == \E i \in 1..Len(text) : MatchAt(text, sep, i)

RECURSIVE MatchStarts(_, _, _)
\* The starts of the leftmost non-overlapping matches of sep from position i on,
\* as re.split finds them.
MatchStarts(text, sep, i) ==
    LET hits == {j \in i..Len(text) : MatchAt(text, sep, j)}
    IN  IF hits = {} THEN <<>>
        ELSE <<Min(hits)>> \o MatchStarts(text, sep, Min(hits) + Len(sep))

\* _split_text_with_regex(text, separator, keep_separator=True): the text cut at
\* every match, each separator kept at the start of the piece that follows it,
\* empty pieces dropped; the empty separator cuts between all characters.
split_text_with_regex(text, sep) ==
    IF sep = <<>> THEN [i \in 1..Len(text) |-> <<text[i]>>]
    ELSE
        LET ms == MatchStarts(text, sep, 1)
            n == Len(ms)
            first == IF n = 0 THEN text ELSE SubSeq(text, 1, ms[1] - 1)
            piece(i) == SubSeq(text, ms[i],
                               IF i = n THEN Len(text) ELSE ms[i + 1] - 1)
            all == <<first>> \o [i \in 1..n |-> piece(i)]
        IN  SelectSeq(all, LAMBDA s : s # <<>>)

\* separator.join(docs)
JoinWith(docs, sep) ==
    Concat([i \in 1..Len(docs) |-> IF i = 1 THEN docs[i] ELSE sep \o docs[i]])

\* Mutant of join_docs: strip_whitespace switched off.
join_docs_unstripped(docs, sep) ==
    LET text == JoinWith(docs, sep)
    IN  IF text = <<>> THEN <<>> ELSE <<text>>

\* _join_docs: the joined text stripped (strip_whitespace=True); None, here the
\* empty sequence of results, when nothing is left.
join_docs(docs, sep) ==
    LET text == strip(JoinWith(docs, sep))
    IN  IF text = <<>> THEN <<>> ELSE <<text>>

\* One pass of the while loop of _merge_splits: while what is kept exceeds the
\* overlap, or leaves no room for the next piece, drop the first piece of
\* current_doc.  st = [docs, cur, total].
PopStep(st, len, seplen) ==
    IF \/ st.total > chunk_overlap
       \/ /\ st.total + len + (IF Len(st.cur) > 0 THEN seplen ELSE 0) > chunk_size
          /\ st.total > 0
    THEN [st EXCEPT !.cur = Tail(st.cur),
                    !.total = st.total - (Len(st.cur[1])
                                 + (IF Len(st.cur) > 1 THEN seplen ELSE 0))]
    ELSE st

RECURSIVE PopLoop(_, _, _, _)
\* The while loop, at most n passes (it ends once current_doc is empty); run by
\* halves to bound the evaluation depth.
PopLoop(st, n, len, seplen) ==
    IF n = 0 THEN st
    ELSE IF n = 1 THEN PopStep(st, len, seplen)
    ELSE LET first == PopLoop(st, n \div 2, len, seplen)
         IN  IF first = first   \* evaluates the first half before the second
             THEN PopLoop(first, n - (n \div 2), len, seplen)
             ELSE first

\* The body of the for loop of _merge_splits for the piece d.
MergeStep(st, d, sep) ==
    LET len == Len(d)
        seplen == Len(sep)
        over == st.total + len + (IF Len(st.cur) > 0 THEN seplen ELSE 0) > chunk_size
        kept == IF over /\ Len(st.cur) > 0
                THEN PopLoop([st EXCEPT !.docs = st.docs \o join_docs(st.cur, sep)],
                             Len(st.cur), len, seplen)
                ELSE st
        cur2 == Append(kept.cur, d)
    IN  [docs |-> kept.docs, cur |-> cur2,
         total |-> kept.total + len + (IF Len(cur2) > 1 THEN seplen ELSE 0)]

RECURSIVE MergeLoop(_, _, _, _, _)
\* The for loop of _merge_splits over splits[lo..hi], run by halves.
MergeLoop(splits, lo, hi, sep, st) ==
    IF lo > hi THEN st
    ELSE IF lo = hi THEN MergeStep(st, splits[lo], sep)
    ELSE LET mid == (lo + hi) \div 2
             first == MergeLoop(splits, lo, mid, sep, st)
         IN  IF first = first   \* evaluates the first half before the second
             THEN MergeLoop(splits, mid + 1, hi, sep, first)
             ELSE first

\* _merge_splits(splits, separator)
merge_splits(splits, sep) ==
    LET st == MergeLoop(splits, 1, Len(splits), sep,
                        [docs |-> <<>>, cur |-> <<>>, total |-> 0])
    IN  st.docs \o join_docs(st.cur, sep)

\* The first separator of seps that occurs in text ("" always does).
PickSeparator(text, seps) ==
    LET found == {i \in 1..Len(seps) : seps[i] = <<>> \/ re_search(seps[i], text)}
    IN  IF found = {} THEN [separator |-> seps[Len(seps)], rest |-> <<>>]
        ELSE [separator |-> seps[Min(found)],
              rest |-> IF seps[Min(found)] = <<>> THEN <<>>
                       ELSE SubSeq(seps, Min(found) + 1, Len(seps))]

RECURSIVE split_text_rec(_, _)

\* The body of the for loop of _split_text for the piece s: a piece shorter than
\* chunk_size is collected; a longer one flushes the collected pieces through
\* _merge_splits and is itself split with the remaining separators.
\* st = [good, final].
SplitStep(st, s, rest) ==
    IF Len(s) < chunk_size
    THEN [st EXCEPT !.good = Append(st.good, s)]
    ELSE
        LET flushed == IF st.good # <<>>
                       THEN st.final \o merge_splits(st.good, <<>>)
                       ELSE st.final
            more == IF rest = <<>> THEN <<s>> ELSE split_text_rec(s, rest)
        IN  [good |-> <<>>, final |-> flushed \o more]

RECURSIVE SplitLoop(_, _, _, _, _)
\* The for loop of _split_text over splits[lo..hi], run by halves.
SplitLoop(splits, lo, hi, rest, st) ==
    IF lo > hi THEN st
    ELSE IF lo = hi THEN SplitStep(st, splits[lo], rest)
    ELSE LET mid == (lo + hi) \div 2
             first == SplitLoop(splits, lo, mid, rest, st)
         IN  IF first = first   \* evaluates the first half before the second
             THEN SplitLoop(splits, mid + 1, hi, rest, first)
             ELSE first

\* RecursiveCharacterTextSplitter._split_text(text, separators)
split_text_rec(text, seps) ==
    LET p == PickSeparator(text, seps)
        splits == split_text_with_regex(text, p.separator)
        st == SplitLoop(splits, 1, Len(splits), p.rest, [good |-> <<>>, final |-> <<>>])
    IN  IF st.good # <<>> THEN st.final \o merge_splits(st.good, <<>>) ELSE st.final

\* split_text(text), which create_documents([text]) turns into one chunk each.
split_text(text) == split_text_rec(text, separators)

\* utils.py process_pdf: the pages' texts joined, then split.
process_pdf(pages) == split_text(Concat(pages))

(***************************************************************************)
(* The documents uploads draw from.  A document is the sequence of its     *)
(* pages' extracted texts (PyPDFLoader.load()).                            *)
(***************************************************************************)
Word(n) == Rep("a", n)

\* A scanned PDF: one page with no text layer.
ScanPages == << <<>> >>
\* A short document, well under chunk_size.
ShortPages == << Word(5) \o <<" ">> \o Word(2) \o <<".">> >>
\* A long document: two pages of 100-character words.
LongPages ==
    << Concat([i \in 1..7 |-> Word(100) \o <<" ">>]),
       Concat([i \in 1..6 |-> Word(100) \o <<"\n">>]) >>

Docs == {"scan", "short", "long"}

DocPages ==
    [d \in Docs |-> CASE d = "scan" -> ScanPages
                      [] d = "short" -> ShortPages
                      [] d = "long" -> LongPages]

\* document_chunks = process_pdf(temp_file_path), for each document.
DocChunks == [d \in Docs |-> process_pdf(DocPages[d])]

\* The text of a stored entry.
ChunkText(e) == DocChunks[e.doc][e.idx]

(***************************************************************************)
(* The embedding capability and the vector store.  The embedding model is  *)
(* an external capability, deterministic for a fixed model; a text's       *)
(* length stands for its vector and the difference of lengths for the      *)
(* distance.  The store is the collection persisted under "chroma_db":     *)
(* exists says whether the location holds an index, entries are its        *)
(* (id, text, vector) records in insertion order.                          *)
(***************************************************************************)
embed(text) == Len(text)

Distance(v, w) == IF v >= w THEN v - w ELSE w - v

NoStore == [exists |-> FALSE, entries |-> <<>>]

\* Mutant of get_or_create_collection: the collection is created anew each time.
create_collection_anew(st) == [exists |-> TRUE, entries |-> <<>>]

\* Chroma(persist_directory="chroma_db", ...): the constructor attaches to the
\* collection at the location, creating an empty one when there is none
\* (get_or_create_collection).  Both build and open go through it.
get_or_create_collection(st) == [exists |-> TRUE, entries |-> st.entries]

\* Mutant of add_documents: the build overwrites what the index held.
add_documents_replacing(st, u, d, i) ==
    [st EXCEPT !.entries =
        SelectSeq(st.entries, LAMBDA e : e.upload = u)
            \o <<[upload |-> u, doc |-> d, idx |-> i]>>]

\* The records the build adds for chunk i of upload u's document d; every record
\* gets a fresh id, so nothing stored before is overwritten.
add_documents(st, u, d, i) ==
    [st EXCEPT !.entries = Append(st.entries, [upload |-> u, doc |-> d, idx |-> i])]

\* Mutant of load_chroma_store: persist_directory left out, so the handle is on
\* an empty in-memory collection.
load_chroma_store_in_memory(st) ==
    [store |-> st, handle |-> <<>>, embeds |-> {}]

\* utils.py load_chroma_store: Chroma(embedding_function, persist_directory).
\* store is the location as the call leaves it, handle the entries the returned
\* vector store exposes, embeds the texts the call has embedded (none: the
\* constructor only attaches to what is stored).
load_chroma_store(st) ==
    LET opened == get_or_create_collection(st)
    IN  [store |-> opened, handle |-> opened.entries, embeds |-> {}]

\* The position of entry i of entries in the ranking for query vector v: the
\* number of entries nearer to v, ties broken by the index's own order.
Rank(entries, v, i) ==
    Cardinality({j \in 1..Len(entries) :
        LET di == Distance(embed(ChunkText(entries[i])), v)
            dj == Distance(embed(ChunkText(entries[j])), v)
        IN  dj < di \/ (dj = di /\ j < i)})

\* Mutant of similarity_search: search_kwargs is dropped and every entry returned.
similarity_search_unbounded(entries, v) ==
    [r \in 1..Len(entries) |->
        entries[CHOOSE i \in 1..Len(entries) : Rank(entries, v, i) = r - 1]]

\* vector_store.as_retriever(search_kwargs={"k": 4}) invoked on a query vector:
\* the k nearest entries, nearest first, or all of them when there are fewer.
similarity_search(entries, v) ==
    LET n == IF Len(entries) < k THEN Len(entries) ELSE k
    IN  [r \in 1..n |->
            entries[CHOOSE i \in 1..Len(entries) : Rank(entries, v, i) = r - 1]]

\* The steps of the chain in qa_ret that can raise, in the order they run.
QaSteps == <<"embed_query", "similarity_search", "prompt", "model", "output_parser">>
QaFaults == {QaSteps[i] : i \in 1..Len(QaSteps)}

\* Mutant of qa_ret: the model is created outside the try block, so its failure
\* is raised to the caller.
qa_ret_model_outside_try(entries, question, fault) ==
    IF fault = "none"
    THEN [raised |-> FALSE, value |-> [type |-> "str", text |-> <<"answer">>],
          context |-> similarity_search(entries, embed(question))]
    ELSE [raised |-> fault = "model",
          value |-> [type |-> "str", text |-> <<"Error: ", fault>>],
          context |-> <<>>]

\* utils.py qa_ret(vector_store, input_query) where step `fault` raises ("none":
\* no step does).  The whole body is inside try/except Exception, so the call
\* returns a string either way: the model's answer over the retrieved context,
\* or "Error: <message>".  context is what the retriever handed to the prompt.
qa_ret(entries, question, fault) ==
    IF fault = "none"
    THEN [raised |-> FALSE, value |-> [type |-> "str", text |-> <<"answer">>],
          context |-> similarity_search(entries, embed(question))]
    ELSE [raised |-> FALSE, value |-> [type |-> "str", text |-> <<"Error: ", fault>>],
          context |-> <<>>]

\* app.py ask_question, lines 90-96: the answer wrapped in a normal response, or
\* HTTP 500 when the try block raised.
ask_question_response(r) ==
    IF r.raised
    THEN [status |-> 500, detail |-> <<"Failed to retrieve answer: ", r.value>>]
    ELSE [status |-> 200, answer |-> r.value]

\* Mutant of upload_pdf_response: the except branch logs the error and falls
\* through to the success message.
upload_pdf_response_swallowing(fault) ==
    [status |-> 200,
     message |-> "PDF successfully processed and stored in vector DB"]

\* app.py upload_pdf, lines 64-68: the success message, or HTTP 500 carrying the
\* error's message when a step of the try block raised.
upload_pdf_response(fault) ==
    IF fault = "none"
    THEN [status |-> 200,
          message |-> "PDF successfully processed and stored in vector DB"]
    ELSE [status |-> 500, detail |-> <<"Failed to process PDF: ", fault>>]

\* The questions asked: a short and a long one.
Questions == {Word(9), Word(400)}

\* Bounds of the model: the upload requests, which may run concurrently, and the
\* clients asking questions, each one question after the other.
NumUploads == 2
NumQueries == 1
Uploads == 1..NumUploads
Queries == 1..NumQueries

Range(f) == {f[i] : i \in DOMAIN f}

\* The short texts the chunker is tried on: every text of at most MaxShort
\* characters.
MaxShort == 4
Alphabet == {"a", " ", "\n"}
ShortTexts == UNION {[1..n -> Alphabet] : n \in 0..MaxShort}

\* ... and the texts around the size bound: lengths chunk_size - Margin to
\* chunk_size + Margin, with or without whitespace at either end, of one word,
\* of two words, or of two paragraphs.
Margin == 1
Pads == {<<>>, <<" ">>, <<"\n">>}
Middles(n) ==
    {Word(n),
     Word(n \div 2) \o <<" ">> \o Word(n - (n \div 2) - 1),
     Word(n \div 2) \o <<"\n", "\n">> \o Word(n - (n \div 2) - 2)}
BoundaryTexts ==
    UNION {{l \o m \o r : m \in Middles(n - Len(l) - Len(r))} :
           <<n, l, r>> \in ((chunk_size - Margin)..(chunk_size + Margin))
                             \X Pads \X Pads}
Texts == ShortTexts \cup BoundaryTexts

VARIABLES
    store,      \* the index persisted at "chroma_db"
    embedded,   \* what the embedding model has been called on so far
    reopen,     \* an open has happened since the last addition to the index
    upload,     \* upload[u]: the state of upload_pdf request u
    query,      \* query[q]: the state of client q's ask_question request
    cpages,     \* the chunker on its own: the pages given to process_pdf
    cchunks,    \* ... the chunks it returned
    cpc         \* ... "off", "input" or "split"

vars == <<store, embedded, reopen, upload, query, cpages, cchunks, cpc>>
chunkerVars == <<cpages, cchunks, cpc>>

NoResponse == [status |-> 0]

IdleUpload ==
    [pc |-> "idle", doc |-> "none", added |-> 0, fault |-> "none",
     trace |-> <<>>, resp |-> NoResponse]

\* fresh, builtBefore and reopened record what the request's open found; qa,
\* indexed, retrieved and origins what its call of qa_ret did.
IdleQuery ==
    [pc |-> "idle", fresh |-> FALSE, builtBefore |-> {}, reopened |-> FALSE,
     qa |-> "not_called", indexed |-> 0, retrieved |-> 0, origins |-> {},
     resp |-> NoResponse]

ServiceInit ==
    /\ store = NoStore
    /\ embedded = {}
    /\ reopen = FALSE
    /\ upload = [u \in Uploads |-> IdleUpload]
    /\ query = [q \in Queries |-> IdleQuery]

Init ==
    /\ ServiceInit
    /\ cpages = <<>> /\ cchunks = <<>> /\ cpc = "off"

\* The number of chunks of upload u's document.
NumChunks(u) == Len(DocChunks[upload[u].doc])

\* The entries a completed build of upload u has stored.
EntriesOf(u) ==
    {[upload |-> u, doc |-> upload[u].doc, idx |-> i] : i \in 1..NumChunks(u)}

\* The uploads whose create_chroma_store call has returned.
Built == {u \in Uploads : \E i \in 1..Len(upload[u].trace) : upload[u].trace[i] = "build"}

(***************************************************************************)
(* app.py upload_pdf.  Each action is one step of the handler's try block; *)
(* UploadRaise is the except branch taken from whichever step is current.  *)
(***************************************************************************)
\* lines 41-46: the upload is read and written to a temporary file.
UploadRead(u) ==
    /\ upload[u].pc = "idle"
    /\ \E d \in Docs :
        upload' = [upload EXCEPT ![u].pc = "received", ![u].doc = d,
                                 ![u].trace = <<"read">>]
    /\ UNCHANGED <<store, embedded, reopen, query, chunkerVars>>

\* line 48: document_chunks = process_pdf(temp_file_path).
UploadChunk(u) ==
    /\ upload[u].pc = "received"
    /\ upload' = [upload EXCEPT ![u].pc = "chunked",
                                ![u].trace = Append(@, "chunk")]
    /\ UNCHANGED <<store, embedded, reopen, query, chunkerVars>>

\* lines 52-55: the embedding model is created.
UploadEmbeddingModel(u) ==
    /\ upload[u].pc = "chunked"
    /\ upload' = [upload EXCEPT ![u].pc = "ready",
                                ![u].trace = Append(@, "embedding_model")]
    /\ UNCHANGED <<store, embedded, reopen, query, chunkerVars>>

\* utils.py create_chroma_store, line 59: Chroma.from_documents first attaches to
\* the collection at "chroma_db" ...
BuildOpen(u) ==
    /\ upload[u].pc = "ready"
    /\ store' = get_or_create_collection(store)
    /\ upload' = [upload EXCEPT ![u].pc = "adding"]
    /\ UNCHANGED <<embedded, reopen, query, chunkerVars>>

\* ... then embeds and adds the chunks.  Nothing makes the additions of one build
\* atomic for another request, so they are added one record at a time: a larger
\* batch skips some of these states and reaches no other.
BuildAdd(u) ==
    /\ upload[u].pc = "adding"
    /\ upload[u].added < NumChunks(u)
    /\ LET i == upload[u].added + 1
       IN  /\ store' = add_documents(store, u, upload[u].doc, i)
           /\ embedded' = embedded \cup {<<"chunk", u, i>>}
           /\ upload' = [upload EXCEPT ![u].added = i]
    /\ reopen' = FALSE
    /\ UNCHANGED <<query, chunkerVars>>

\* ... and returns the store (line 65).
BuildReturn(u) ==
    /\ upload[u].pc = "adding"
    /\ upload[u].added = NumChunks(u)
    /\ upload' = [upload EXCEPT ![u].pc = "built",
                                ![u].trace = Append(@, "build")]
    /\ UNCHANGED <<store, embedded, reopen, query, chunkerVars>>

\* lines 61-64: the temporary file is removed and success is returned.
UploadFinish(u) ==
    /\ upload[u].pc = "built"
    /\ upload' = [upload EXCEPT ![u].pc = "done",
                                ![u].trace = Append(@, "remove"),
                                ![u].resp = upload_pdf_response("none")]
    /\ UNCHANGED <<store, embedded, reopen, query, chunkerVars>>

\* The step of upload_pdf's try block that runs next at pc.
UploadStep(pc) ==
    CASE pc = "idle" -> "read"
      [] pc = "received" -> "process_pdf"
      [] pc = "chunked" -> "embedding_model"
      [] pc \in {"ready", "adding"} -> "create_chroma_store"
      [] pc = "built" -> "remove"

\* lines 66-68: the current step raises; the handler answers HTTP 500.  What the
\* build had already added stays in the store.
UploadRaise(u) ==
    /\ upload[u].pc # "done"
    /\ LET step == UploadStep(upload[u].pc)
       IN  upload' = [upload EXCEPT ![u].pc = "done", ![u].fault = step,
                                    ![u].added = 0,
                                    ![u].resp = upload_pdf_response(step)]
    /\ UNCHANGED <<store, embedded, reopen, query, chunkerVars>>

(***************************************************************************)
(* app.py ask_question.                                                    *)
(***************************************************************************)
\* lines 83-86: the embedding model is created.
QueryEmbeddingModel(q) ==
    /\ query[q].pc = "idle"
    /\ query' = [query EXCEPT ![q].pc = "open"]
    /\ UNCHANGED <<store, embedded, reopen, upload, chunkerVars>>

\* lines 94-96: creating the embedding model raises; HTTP 500.
QueryRaise(q) ==
    /\ query[q].pc = "idle"
    /\ query' = [query EXCEPT ![q].pc = "done",
            ![q].resp = ask_question_response(
                            [raised |-> TRUE, value |-> "embedding_model"])]
    /\ UNCHANGED <<store, embedded, reopen, upload, chunkerVars>>

\* line 87: vector_store = load_chroma_store(embedding_model).
QueryOpen(q) ==
    /\ query[q].pc = "open"
    /\ LET r == load_chroma_store(store)
       IN  /\ store' = r.store
           /\ embedded' = embedded \cup r.embeds
    /\ query' = [query EXCEPT ![q].pc = "answer",
                              ![q].fresh = ~store.exists,
                              ![q].builtBefore = Built,
                              ![q].reopened = reopen]
    /\ reopen' = TRUE
    /\ UNCHANGED <<upload, chunkerVars>>

\* lines 89-92: response = qa_ret(vector_store, question), answered as
\* {"answer": response}.  The handle reads the collection as it is when the
\* search runs.
QueryAnswer(q) ==
    /\ query[q].pc = "answer"
    /\ \E question \in Questions, fault \in QaFaults \cup {"none"} :
        LET r == qa_ret(store.entries, question, fault)
        IN  /\ query' = [query EXCEPT
                            ![q].pc = "done",
                            ![q].qa = fault,
                            ![q].indexed = IF fault = "none"
                                           THEN Len(store.entries) ELSE 0,
                            ![q].retrieved = Len(r.context),
                            ![q].origins = {e.upload : e \in Range(r.context)},
                            ![q].resp = ask_question_response(r)]
            /\ embedded' = IF fault = "embed_query" THEN embedded
                           ELSE embedded \cup {<<"query", q>>}
    /\ UNCHANGED <<store, reopen, upload, chunkerVars>>

\* The client has its answer and asks the next question.
QueryNext(q) ==
    /\ query[q].pc = "done"
    /\ query' = [query EXCEPT ![q] = IdleQuery]
    /\ UNCHANGED <<store, embedded, reopen, upload, chunkerVars>>

UploadNext(u) ==
    \/ UploadRead(u) \/ UploadChunk(u) \/ UploadEmbeddingModel(u)
    \/ BuildOpen(u) \/ BuildAdd(u) \/ BuildReturn(u)
    \/ UploadFinish(u) \/ UploadRaise(u)

QueryStep(q) ==
    \/ QueryEmbeddingModel(q) \/ QueryRaise(q)
    \/ QueryOpen(q) \/ QueryAnswer(q)

Next ==
    \/ \E u \in Uploads : UploadNext(u)
    \/ \E q \in Queries : QueryStep(q) \/ QueryNext(q)

Spec == Init /\ [][Next]_vars

(***************************************************************************)
(* The chunker on its own: process_pdf applied to a document whose text is *)
(* one of Texts, given as one page or cut into two.                        *)
(***************************************************************************)
InitChunk ==
    /\ ServiceInit
    /\ \E t \in Texts, cut \in {0, 1} :
        /\ cut <= Len(t)
        /\ cpages = IF cut = 0 THEN <<t>>
                    ELSE <<SubSeq(t, 1, Len(t) \div 2),
                           SubSeq(t, (Len(t) \div 2) + 1, Len(t))>>
    /\ cchunks = <<>>
    /\ cpc = "input"

Chunk ==
    /\ cpc = "input"
    /\ cchunks' = process_pdf(cpages)
    /\ cpc' = "split"
    /\ UNCHANGED <<cpages, store, embedded, reopen, upload, query>>

NextChunk == Chunk

SpecChunk == InitChunk /\ [][NextChunk]_vars

(***************************************************************************)
(* The claims.                                                             *)
(***************************************************************************)
Min2(a, b) == IF a < b THEN a ELSE b

UploadSucceeded(u) == upload[u].resp.status = 200

\* What an open of the location would expose, as the store stands.
Exposed(st) == Range(load_chroma_store(st).handle)

\* C1: the index is append-only across ingestions: the chunks of every document
\* whose build has completed are in the index, whatever was ingested after it.
C1_IndexAccumulates ==
    \A u \in Built : EntriesOf(u) \subseteq Range(store.entries)

\* C1's case: two documents were ingested one after the other, both successfully,
\* and a later question retrieved chunks of both.
C1_Witness ==
    \E q \in Queries :
        /\ \A u \in Uploads : UploadSucceeded(u) /\ NumChunks(u) > 0
        /\ upload[1].doc # upload[2].doc
        /\ query[q].builtBefore = Uploads
        /\ query[q].origins = Uploads
        /\ query[q].resp.status = 200

\* C2: a question asked when the location holds no index fails at the open with
\* IndexNotFound, reported to the caller as a failure: the request never gets to
\* answer from the index it found missing.
C2_IndexNotFound ==
    \A q \in Queries :
        query[q].fresh =>
            /\ query[q].pc = "done"
            /\ query[q].qa = "not_called"
            /\ query[q].resp.status = 500

\* C3: qa_ret never raises: whichever step of retrieval or generation fails, it
\* returns the string "Error: <message>", and ask_question answers the string it
\* got with a normal {"answer": ...} response.
C3_QaRetNeverRaises ==
    \A q \in Queries :
        query[q].qa # "not_called" =>
            /\ query[q].resp.status = 200
            /\ query[q].resp.answer.type = "str"
            /\ query[q].qa # "none" =>
                   query[q].resp.answer.text = <<"Error: ", query[q].qa>>

\* C3's case: a step of the chain raised inside qa_ret and the request was
\* answered.
C3_Witness ==
    \E q \in Queries :
        /\ query[q].pc = "done"
        /\ query[q].qa = "model"
        /\ query[q].resp.status = 200

\* C4: a document that yields no chunk is refused as an EmptyDocument failure:
\* its upload neither reaches the index (creating an empty one) nor succeeds.
C4_EmptyDocumentRefused ==
    \A u \in Uploads :
        (upload[u].doc # "none" /\ NumChunks(u) = 0) =>
            /\ upload[u].pc \notin {"adding", "built"}
            /\ ~UploadSucceeded(u)

C7_QueryPathReadOnly ==
    [][\A q \in Queries : QueryStep(q) => store' = store]_vars

\* C8 as stated: a text of at most chunk_size characters yields exactly one
\* chunk, equal to the text.
C8_OneChunkEqualToText ==
    (cpc = "split" /\ Len(Concat(cpages)) <= chunk_size) =>
        cchunks = <<Concat(cpages)>>

\* C8 amended: a text of at most chunk_size characters with a non-whitespace
\* character yields exactly one chunk, the text without its leading and trailing
\* whitespace; an empty or all-whitespace text yields no chunk.
C8_OneChunkStripped ==
    (cpc = "split" /\ Len(Concat(cpages)) <= chunk_size) =>
        LET t == Concat(cpages)
            inner == {i \in 1..Len(t) : ~IsSpace(t[i])}
        IN  IF inner = {} THEN cchunks = <<>>
            ELSE /\ Len(cchunks) = 1
                 /\ cchunks[1] = SubSeq(t, Min(inner), Max(inner))

\* C8's case: a text of exactly chunk_size characters that starts with
\* whitespace has been chunked.
C8_Witness ==
    /\ cpc = "split"
    /\ Len(Concat(cpages)) = chunk_size
    /\ IsSpace(Concat(cpages)[1])
    /\ Len(cchunks) = 1

\* C9: upload_pdf reports success only after chunking and the build have both
\* completed, in that order, with no step having raised; a step that raises ends
\* the request with HTTP 500 carrying the error and no success message.
C9_SuccessOnlyAfterBuild ==
    \A u \in Uploads :
        /\ UploadSucceeded(u) =>
              /\ upload[u].fault = "none"
              /\ upload[u].trace =
                     <<"read", "chunk", "embedding_model", "build", "remove">>
        /\ upload[u].fault # "none" =>
              /\ upload[u].pc = "done"
              /\ upload[u].resp =
                     [status |-> 500,
                      detail |-> <<"Failed to process PDF: ", upload[u].fault>>]
        /\ upload[u].pc = "done" => upload[u].resp.status \in {200, 500}

\* C9's case: the build raised after it had added part of the document.
C9_Witness ==
    \E u \in Uploads :
        /\ upload[u].fault = "create_chroma_store"
        /\ upload[u].doc = "long"
        /\ \E e \in Range(store.entries) : e.upload = u
        /\ ~ EntriesOf(u) \subseteq Range(store.entries)

====
